---- MODULE Spec2Model ----
(***************************************************************************)
(* Group-wise (clustered) federated aggregation:                           *)
(* GroupWiseAggregation.trainAndTest and GroupWiseAggregation.clustering   *)
(* of src/aggregators/GroupWise.py, with the client set-up of src/main.py, *)
(* the split of the training rows of src/dataLoaders/dataUtils.py and the  *)
(* experiment driver (program, __experimentSetup) of src/main.py.          *)
(*                                                                         *)
(* A model parameter is a rational <<n, d>> in lowest terms (d > 0); a     *)
(* structured model (nn.Module) is the sequence of its D parameters.       *)
(* Python indices are 0-based: clients[i] is clients[i + 1] here, and the  *)
(* dictionary of client models is keyed by i + 1 as in the source.         *)
(***************************************************************************)
EXTENDS Integers, Sequences, FiniteSets, TLC

\* ------------------------------------------------------------------ bounds
MaxClients == 2
MaxRounds == 2
D == 2
MaxRows == 5
MaxAggregators == 2
MaxScenarios == 2

\* parameter values a locally trained model may hold, sample counts of a
\* client's training set, and the error rates a test may report
Vals == {0, 1}
SampleCounts == {1, 2}
ErrVals == {0, 1}

\* the shares of the training rows a configuration may give a client (0.1,
\* 0.2, 0.3), the aggregator classes it may list (their __name__, in
\* pieces), and its name
Shares == {<<1, 10>>, <<1, 5>>, <<3, 10>>}
AggregatorClasses == {<<"FA", "Aggregator">>, <<"FedMGDA", "Plus", "Aggregator">>}
ConfigNames == {"", "dp"}

\* ------------------------------------------------------- program constants
cluster_count == 3

\* None (no tensor, no model) is the empty sequence
None == <<>>
NoExc == "none"

VARIABLES
    clients,              \* self.clients: <<[id, n, p]>>
    rounds,               \* self.config.rounds
    r,                    \* the round index of trainAndTest's loop
    pc,                   \* position in trainAndTest / clustering
    model,                \* self.model, the global model
    broadcast,            \* the model the clients received for this round
    trained,              \* each client's locally trained model, or None
    models,               \* the dictionary of _retrieveClientModelsDict
    cluster_centres,      \* self.cluster_centres
    old_centres,          \* clustering's local old_centres
    cluster_choices,      \* self.cluster_choices
    cluster_models,       \* trainAndTest's local cluster_models
    cluster_model_count,  \* trainAndTest's local cluster_model_count
    externalArgs,         \* arguments of the last externalAggregator.aggregate
    printed,              \* the assignments printed at line 38, in order
    produced,             \* the models assigned to self.model at line 65, in order
    roundsError,          \* trainAndTest's local roundsError
    stored,               \* the round indices whose roundsError was assigned
    passes,               \* assignment passes (129-138) run by this call of clustering
    exc,                  \* the exception that left trainAndTest, if any
    percUsers,            \* _splitTrainDataIntoClientDatasets: its percUsers
    trainDataframe,       \* its trainDataframe, the rows in their order
    clientDatasets,       \* its result, or None before the call
    mainPc,               \* position in program / __experimentSetup
    config,               \* program's config
    exitStatus,           \* the status the process ends with
    scenario,             \* scenarios of program's loop completed so far
    aggregatorIndex,      \* position of __experimentSetup's loop (1-based)
    runNo,                \* runs made so far for the current aggregator
    iterRuns,             \* the runs of the latest aggregator, in order
    errorsDict,           \* __experimentSetup's errorsDict
    blocked,              \* __experimentSetup's blocked
    loads                 \* calls of datasetLoader (line 213) so far

\* the state of one GroupWiseAggregation
aggregatorVars == <<clients, rounds, r, pc, model, broadcast, trained, models,
                    cluster_centres, old_centres, cluster_choices,
                    cluster_models, cluster_model_count, externalArgs,
                    printed, produced, roundsError, stored, passes, exc>>

\* the state of one call of _splitTrainDataIntoClientDatasets
loaderVars == <<percUsers, trainDataframe, clientDatasets>>

\* the state of program and __experimentSetup
mainVars == <<mainPc, config, exitStatus, scenario, aggregatorIndex, runNo,
              iterRuns, errorsDict, blocked, loads>>

vars == <<aggregatorVars, loaderVars, mainVars>>

\* -------------------------------------------------------------- rationals
Abs(x) == IF x < 0 THEN -x ELSE x

RECURSIVE GCD(_, _)
GCD(a, b) == IF b = 0 THEN a ELSE GCD(b, a % b)

Rat(n, d) == LET g == GCD(Abs(n), d) IN <<n \div g, d \div g>>

RAdd(x, y) == Rat(x[1] * y[2] + y[1] * x[2], x[2] * y[2])

RMul(x, y) == Rat(x[1] * y[1], x[2] * y[2])

RDiv(x, y) == IF y[1] > 0 THEN Rat(x[1] * y[2], x[2] * y[1])
              ELSE Rat(-(x[1] * y[2]), x[2] * (-y[1]))

Zero == <<0, 1>>
One == <<1, 1>>

\* the models local training may produce: at most one parameter is non-zero
Vectors ==
    {m \in [1..D -> {<<v, 1>> : v \in Vals}] :
        Cardinality({k \in 1..D : m[k] # Zero}) <= 1}

NumClients == Len(clients)

RECURSIVE SumN(_, _)
SumN(cs, k) == IF k = 0 THEN 0 ELSE cs[k] + SumN(cs, k - 1)

\* ------------------------------------------------- src/main.py __initClients
\* mutant: the weights left at p0 = 1 / usersNo of line 276
initClientsEqualStake(ns) ==
    [i \in 1..Len(ns) |-> [id |-> i, n |-> ns[i], p |-> Rat(1, Len(ns))]]

\* every client is created with p0 = 1 / usersNo, then p is overwritten by
\* client.n / nTrain (lines 303-306)
initClients(ns) ==
    LET nTrain == SumN(ns, Len(ns))
    IN [i \in 1..Len(ns) |-> [id |-> i, n |-> ns[i], p |-> Rat(ns[i], nTrain)]]

\* ------------------------------------------------ Aggregator._mergeModels
\* mDest := alphaOrig * mOrig + alphaDest * mDest, parameter by parameter
mergeModels(mOrig, mDest, alphaOrig, alphaDest) ==
    [k \in 1..D |-> RAdd(RMul(alphaOrig, mOrig[k]), RMul(alphaDest, mDest[k]))]

\* ------------------------------------------- AggregationStrategy.aggregate
Fail == "EmptyAggregationInputError"

RECURSIVE WeightSum(_, _)
WeightSum(cs, k) == IF k = 0 THEN Zero ELSE RAdd(cs[k].p, WeightSum(cs, k - 1))

RECURSIVE WeightedSum(_, _, _)
WeightedSum(cs, ms, k) ==
    IF k = 0 THEN [j \in 1..D |-> Zero]
    ELSE mergeModels(ms[k], WeightedSum(cs, ms, k - 1), cs[k].p, One)

\* the weighted mean of the models ms under the stakes cs[i].p; an
\* aggregation over zero entries fails
aggregate(cs, ms) ==
    IF Len(cs) = 0 \/ WeightSum(cs, Len(cs))[1] = 0
    THEN [exc |-> Fail, val |-> None]
    ELSE LET total == WeightSum(cs, Len(cs))
             sum == WeightedSum(cs, ms, Len(cs))
         IN [exc |-> NoExc, val |-> [j \in 1..D |-> RDiv(sum[j], total)]]

\* --------------------------------------------------- _generate_weights
\* torch.cat of every model's parameters onto one 1-D tensor: the result is
\* the flat sequence of Len(ms) * D scalars
RECURSIVE generate_weights(_)
generate_weights(ms) ==
    IF Len(ms) = 0 THEN <<>> ELSE Head(ms) \o generate_weights(Tail(ms))

\* ------------------------------------------------------ nn.CosineSimilarity
\* integer multiples of the entries of a 1-D tensor of rationals (the
\* entries times the least common multiple of their denominators)
RECURSIVE DenLcm(_, _)
DenLcm(x, k) ==
    IF k = 0 THEN 1
    ELSE LET l == DenLcm(x, k - 1) IN (l * x[k][2]) \div GCD(l, x[k][2])

Ints(x) == [k \in 1..Len(x) |-> x[k][1] * (DenLcm(x, Len(x)) \div x[k][2])]

RECURSIVE Dot(_, _, _)
Dot(a, b, k) == IF k = 0 THEN 0 ELSE a[k] * b[k] + Dot(a, b, k - 1)

\* cos(x1, x2) < 0.99 for 1-D tensors of equal length; a zero tensor has
\* similarity 0 to everything (the norm product is clamped to eps)
cosBelowThreshold(x1, x2) ==
    LET a == Ints(x1)
        b == Ints(x2)
        ab == Dot(a, b, Len(a))
        aa == Dot(a, a, Len(a))
        bb == Dot(b, b, Len(a))
    IN IF aa = 0 \/ bb = 0 THEN TRUE
       ELSE ab < 0 \/
            LET cos2 == RMul(Rat(ab, aa), Rat(ab, bb))
            IN 10000 * cos2[1] < 9801 * cos2[2]

Sign(x) == IF x > 0 THEN 1 ELSE IF x < 0 THEN -1 ELSE 0

\* cos of two 0-d tensors (single scalars): 1, -1, or 0 when one is zero
scalarCos(x, c) == Sign(x[1]) * Sign(c[1])

\* ------------------------------------------- clustering, lines 130-136
\* the inner loop over the centres from index j on, (best_sim, choice) so far
RECURSIVE bestChoice(_, _, _, _, _)
bestChoice(m, centres, j, best_sim, choice) ==
    IF j > Len(centres) THEN choice
    ELSE LET sim == scalarCos(m, centres[j])
         IN IF sim > best_sim
            THEN bestChoice(m, centres, j + 1, sim, j - 1)
            ELSE bestChoice(m, centres, j + 1, best_sim, choice)

\* indices = [val for val in self.cluster_choices if val == choice]
\* (the list holds the matching VALUES, each equal to choice)
indicesOf(choices, choice) ==
    SelectSeq(choices, LAMBDA val : val = choice)

\* ------------------------------------------------- _gen_cluster_centre
\* internalAggregator.aggregate over clients[i], models[i+1] for i in
\* indices, then the first scalar of the flattened result
gen_cluster_centre(indices, cs, ms) ==
    IF \E k \in 1..Len(indices) : indices[k] + 1 \notin 1..Len(cs)
    THEN [exc |-> "IndexError", val |-> None]
    ELSE LET m == aggregate([k \in 1..Len(indices) |-> cs[indices[k] + 1]],
                            [k \in 1..Len(indices) |-> ms[indices[k] + 1]])
         IN IF m.exc # NoExc THEN m
            ELSE [exc |-> NoExc, val |-> generate_weights(<<m.val>>)[1]]

\* ------------------------------- _init_cluster_centres, else branch (88-91)
\* in-place recomputation of the centres from index `choice` on; stops at
\* the first failure, keeping the writes made before it
RECURSIVE recomputeCentres(_, _, _, _, _)
recomputeCentres(centres, choice, choices, cs, ms) ==
    IF choice >= cluster_count THEN [centres |-> centres, exc |-> NoExc]
    ELSE LET c == gen_cluster_centre(indicesOf(choices, choice), cs, ms)
         IN IF c.exc # NoExc
            THEN [centres |-> centres, exc |-> c.exc]
            ELSE recomputeCentres([centres EXCEPT ![choice + 1] = c.val],
                                  choice + 1, choices, cs, ms)

\* ------------------------------------------ trainAndTest, lines 43-57
\* deepcopy(self.model) merged with models[i+1] under clients[i].p for
\* every i of indices, the first merge with comb = 0.0
RECURSIVE mergeIndices(_, _, _, _, _)
mergeIndices(indices, k, empty_model, cs, ms) ==
    IF k > Len(indices) THEN empty_model
    ELSE mergeIndices(indices, k + 1,
                      mergeModels(ms[indices[k] + 1], empty_model,
                                  cs[indices[k] + 1].p,
                                  IF k = 1 THEN Zero ELSE One),
                      cs, ms)

clusterModel(choice, choices, global, cs, ms) ==
    mergeIndices(indicesOf(choices, choice), 1, global, cs, ms)

\* mutant: the comparison of line 44 as <= instead of ==
clusterModelCountUpTo(choice, choices) ==
    Len(SelectSeq(choices, LAMBDA val : val <= choice))

clusterModelCount(choice, choices) == Len(indicesOf(choices, choice))

\* a member index i with no models[i+1] raises KeyError
clusterKeyError(choices, ms) ==
    \E choice \in 0..(cluster_count - 1) :
        /\ Len(indicesOf(choices, choice)) > 0
        /\ choice + 1 \notin 1..Len(ms)

\* mutant: every cluster given the same weight 1 / cluster_count
fakeClientsEqualWeight(counts, n) ==
    [i \in 1..Len(counts) |-> [p |-> Rat(1, Len(counts)), id |-> i - 1]]

\* FakeClient(val / len(self.clients), i) for (i, val) in enumerate(counts)
fakeClients(counts, n) ==
    [i \in 1..Len(counts) |-> [p |-> Rat(counts[i], n), id |-> i - 1]]

\* ------------------------------- _init_cluster_centres, first branch (85-86)
\* torch.randint(high=high, size=(cluster_count,)): any cluster_count
\* positions in [0, high), repetitions included
randint(high) == [1..cluster_count -> 0..(high - 1)]

\* models_weights[indices] for every outcome of the draw
randomCentres(models_weights) ==
    {[j \in 1..cluster_count |-> models_weights[indices[j] + 1]] :
        indices \in randint(Len(models_weights))}

\* ------------------------------------------------------------------- Init
\* mutant: the assignment starts as "no cluster" (-1) for every client
initialChoicesUnassigned(n) == [i \in 1..n |-> -1]

\* line 24: self.cluster_choices = [0]*len(self.clients)
initialChoices(n) == [i \in 1..n |-> 0]

\* no call of _splitTrainDataIntoClientDatasets is under way
NoLoader ==
    /\ percUsers = None
    /\ trainDataframe = None
    /\ clientDatasets = None

\* the driver is inside aggregator.trainAndTest (line 235) and stays there
InTrainAndTest ==
    /\ mainPc = "trainAndTest"
    /\ config = None
    /\ exitStatus = 0
    /\ scenario = 0
    /\ aggregatorIndex = 1
    /\ runNo = 0
    /\ iterRuns = <<>>
    /\ errorsDict = <<>>
    /\ blocked = <<>>
    /\ loads = 1

\* GroupWiseAggregation.__init__ over the clients of __initClients
Init ==
    /\ \E n \in 1..MaxClients : \E ns \in [1..n -> SampleCounts] :
          /\ clients = initClients(ns)
          /\ cluster_choices = initialChoices(n)
    /\ rounds \in 1..MaxRounds
    /\ roundsError = [i \in 1..rounds |-> 0]
    /\ model \in {[k \in 1..D |-> <<v, 1>>] : v \in Vals}
    /\ cluster_centres = None
    /\ old_centres = None
    /\ r = 0
    /\ pc = "share"
    /\ broadcast = None
    /\ trained = [i \in 1..NumClients |-> None]
    /\ models = None
    /\ cluster_models = <<>>
    /\ cluster_model_count = <<>>
    /\ externalArgs = None
    /\ printed = <<>>
    /\ produced = <<>>
    /\ stored = {}
    /\ passes = 0
    /\ exc = NoExc
    /\ NoLoader
    /\ InTrainAndTest

\* mutant: clustering (line 37) ahead of the training and retrieval of lines
\* 33-34
afterClusteringFirst(p) ==
    CASE p = "share" -> "clustering"
      [] p = "train" -> "clustering"
      [] p = "loop" -> "aggregate"
      [] p = "aggregate" -> "external"
      [] p = "external" -> "test"
      [] p = "test" -> "share"

\* ------------------------------------------------ trainAndTest, lines 31-69
\* the statement that follows position p in the body of the rounds loop:
\* train (33), retrieve (34), clustering (37), per-cluster merge (38-57),
\* external aggregation (65), test (67), and back to the loop head (31)
after(p) ==
    CASE p = "share" -> "train"
      [] p = "train" -> "clustering"
      [] p = "loop" -> "aggregate"
      [] p = "aggregate" -> "external"
      [] p = "external" -> "test"
      [] p = "test" -> "share"

\* mutant: the round's body wrapped in a handler that swallows the exception
\* and goes on to the test of line 67
raiseSwallowed(p) == "test"

\* the position reached when an exception is raised at position p: nothing
\* in trainAndTest or clustering catches it, it leaves trainAndTest
raise(p) == "raised"

\* ------------------------------------------- _shareModelAndTrainOnClients
\* line 33: the clients receive the current global model ...
shareModel ==
    /\ pc = "share"
    /\ r < rounds
    /\ broadcast' = model
    /\ trained' = [i \in 1..NumClients |-> None]
    /\ pc' = after(pc)
    /\ UNCHANGED <<clients, rounds, r, model, models, cluster_centres,
                   old_centres, cluster_choices, cluster_models,
                   cluster_model_count, externalArgs, printed, produced,
                   roundsError, stored, exc,
                   passes>>
    /\ UNCHANGED <<loaderVars, mainVars>>

\* ... and each trains it on its own data
trainClient(i) ==
    /\ pc = "train"
    /\ trained[i] = None
    /\ \E v \in Vectors : trained' = [trained EXCEPT ![i] = v]
    /\ UNCHANGED <<clients, rounds, r, pc, model, broadcast, models,
                   cluster_centres, old_centres, cluster_choices,
                   cluster_models, cluster_model_count, externalArgs,
                   printed, produced, roundsError, stored, exc,
                   passes>>
    /\ UNCHANGED <<loaderVars, mainVars>>

\* line 34: models = self._retrieveClientModelsDict()
retrieveClientModelsDict ==
    /\ pc = "train"
    /\ \A i \in 1..NumClients : trained[i] # None
    /\ models' = trained
    /\ pc' = after(pc)
    /\ UNCHANGED <<clients, rounds, r, model, broadcast, trained,
                   cluster_centres, old_centres, cluster_choices,
                   cluster_models, cluster_model_count, externalArgs,
                   printed, produced, roundsError, stored, exc,
                   passes>>
    /\ UNCHANGED <<loaderVars, mainVars>>

\* ------------------------------------------------ clustering, lines 119-123
\* first call: cluster_count scalars of the flat tensor, drawn by
\* torch.randint (with replacement) over its len(models_weights) positions
init_cluster_centres_random ==
    /\ pc = "clustering"
    /\ passes' = 0
    /\ cluster_centres = None
    /\ cluster_centres' \in randomCentres(generate_weights(models))
    /\ old_centres' = cluster_centres'
    /\ pc' = "loop"
    /\ UNCHANGED <<clients, rounds, r, model, broadcast, trained, models,
                   cluster_choices, cluster_models, cluster_model_count,
                   externalArgs, printed, produced, roundsError, stored, exc>>
    /\ UNCHANGED <<loaderVars, mainVars>>

\* later calls: every centre is recomputed in place from cluster_choices
init_cluster_centres_recompute ==
    /\ pc = "clustering"
    /\ passes' = 0
    /\ cluster_centres # None
    /\ LET res == recomputeCentres(cluster_centres, 0, cluster_choices,
                                   clients, models)
       IN /\ cluster_centres' = res.centres
          /\ exc' = res.exc
          /\ IF res.exc = NoExc
             THEN pc' = "loop" /\ old_centres' = res.centres
             ELSE pc' = raise(pc) /\ old_centres' = old_centres
    /\ UNCHANGED <<clients, rounds, r, model, broadcast, trained, models,
                   cluster_choices, cluster_models, cluster_model_count,
                   externalArgs, printed, produced, roundsError, stored>>
    /\ UNCHANGED <<loaderVars, mainVars>>

\* line 126 false: the loop ends, clustering returns, and line 38 prints the
\* assignment
clusteringReturn ==
    /\ pc = "loop"
    /\ ~cosBelowThreshold(old_centres, cluster_centres)
    /\ printed' = Append(printed, cluster_choices)
    /\ pc' = after(pc)
    /\ UNCHANGED <<clients, rounds, r, model, broadcast, trained, models,
                   cluster_centres, old_centres, cluster_choices,
                   cluster_models, cluster_model_count, externalArgs,
                   produced, roundsError, stored, exc,
                   passes>>
    /\ UNCHANGED <<loaderVars, mainVars>>

\* cluster_choices after the assignment loop has run over the first `upto`
\* scalars of models_weights (lines 129-138)
assignChoices(choices, models_weights, centres, upto) ==
    [i \in 1..Len(choices) |->
        IF i <= upto THEN bestChoice(models_weights[i], centres, 1, 0, -1)
        ELSE choices[i]]

\* line 126 true, lines 127-140: one pass of the loop body.  The loop runs
\* over the len(models) * D scalars of models_weights; cos of two 0-d
\* tensors either evaluates or raises IndexError, depending on the torch
\* build; cluster_choices[i] raises IndexError from i = len(clients) on;
\* line 140 calls _init_cluster_centres without `models`: TypeError
clusteringLoopBody ==
    /\ pc = "loop"
    /\ cosBelowThreshold(old_centres, cluster_centres)
    /\ old_centres' = cluster_centres
    /\ LET models_weights == generate_weights(models)
       IN \E zeroDimCos \in BOOLEAN :
            IF ~zeroDimCos
            THEN /\ cluster_choices' = cluster_choices
                 /\ passes' = passes
                 /\ exc' = "IndexError"
            ELSE /\ passes' = passes + 1
                 /\ cluster_choices' =
                        assignChoices(cluster_choices, models_weights,
                                      cluster_centres, Len(cluster_choices))
                 /\ exc' = IF Len(models_weights) > Len(cluster_choices)
                           THEN "IndexError" ELSE "TypeError"
    /\ pc' = raise(pc)
    /\ UNCHANGED <<clients, rounds, r, model, broadcast, trained, models,
                   cluster_centres, cluster_models, cluster_model_count,
                   externalArgs, printed, produced, roundsError, stored>>
    /\ UNCHANGED <<loaderVars, mainVars>>

\* ------------------------------------------------ trainAndTest, lines 39-57
\* mutant: line 43 without the deepcopy, the merges going into self.model
selfModelMerged(global, merged) == merged[1]

\* line 43: empty_model = deepcopy(self.model); the merges go into the copy,
\* self.model keeps its value (merged: the cluster models built from copies)
selfModelAfterMerges(global, merged) == global

clusterAggregation ==
    /\ pc = "aggregate"
    /\ IF clusterKeyError(cluster_choices, models)
       THEN /\ pc' = raise(pc)
            /\ exc' = "KeyError"
            /\ UNCHANGED <<model, cluster_models, cluster_model_count>>
       ELSE /\ cluster_model_count' =
                 [c \in 1..cluster_count |->
                     clusterModelCount(c - 1, cluster_choices)]
            /\ cluster_models' =
                 [c \in 1..cluster_count |->
                     clusterModel(c - 1, cluster_choices, model, clients, models)]
            /\ model' = selfModelAfterMerges(model, cluster_models')
            /\ pc' = after(pc)
            /\ exc' = exc
    /\ UNCHANGED <<clients, rounds, r, broadcast, trained, models,
                   cluster_centres, old_centres, cluster_choices,
                   externalArgs, printed, produced, roundsError, stored,
                   passes>>
    /\ UNCHANGED <<loaderVars, mainVars>>

\* line 65: self.model = self.externalAggregator.aggregate(FakeClients, cluster_models)
externalAggregation ==
    /\ pc = "external"
    /\ LET fake == fakeClients(cluster_model_count, NumClients)
           res == aggregate(fake, cluster_models)
       IN /\ externalArgs' = [clients |-> fake, models |-> cluster_models]
          /\ IF res.exc = NoExc
             THEN /\ model' = res.val
                  /\ produced' = Append(produced, res.val)
                  /\ pc' = after(pc)
                  /\ exc' = exc
             ELSE /\ model' = model
                  /\ produced' = produced
                  /\ pc' = raise(pc)
                  /\ exc' = res.exc
    /\ UNCHANGED <<clients, rounds, r, broadcast, trained, models,
                   cluster_centres, old_centres, cluster_choices,
                   cluster_models, cluster_model_count, printed, roundsError,
                   stored,
                   passes>>
    /\ UNCHANGED <<loaderVars, mainVars>>

\* line 67: roundsError[r] = self.test(testDataset), then the next round.
\* The locals of the finished iteration (models, cluster_models,
\* cluster_model_count, clustering's old_centres) are dead from here on:
\* each is assigned anew before its next read
test ==
    /\ pc = "test"
    /\ \E e \in ErrVals : roundsError' = [roundsError EXCEPT ![r + 1] = e]
    /\ stored' = stored \cup {r}
    /\ r' = r + 1
    /\ pc' = after(pc)
    /\ models' = None
    /\ trained' = [i \in 1..NumClients |-> None]
    /\ cluster_models' = <<>>
    /\ cluster_model_count' = <<>>
    /\ old_centres' = None
    /\ externalArgs' = None
    /\ UNCHANGED <<clients, rounds, model, broadcast, cluster_centres,
                   cluster_choices, printed, produced, exc,
                   passes>>
    /\ UNCHANGED <<loaderVars, mainVars>>

\* line 69: return roundsError
trainAndTestReturn ==
    /\ pc = "share"
    /\ r = rounds
    /\ pc' = "returned"
    /\ UNCHANGED <<clients, rounds, r, model, broadcast, trained, models,
                   cluster_centres, old_centres, cluster_choices,
                   cluster_models, cluster_model_count, externalArgs,
                   printed, produced, roundsError, stored, exc,
                   passes>>
    /\ UNCHANGED <<loaderVars, mainVars>>

Next ==
    \/ shareModel
    \/ \E i \in 1..NumClients : trainClient(i)
    \/ retrieveClientModelsDict
    \/ init_cluster_centres_random
    \/ init_cluster_centres_recompute
    \/ clusteringReturn
    \/ clusteringLoopBody
    \/ clusterAggregation
    \/ externalAggregation
    \/ test
    \/ trainAndTestReturn

Spec == Init /\ [][Next]_vars

\* ------------------------------------------- the same client vectors twice
\* A second specification for claims about repeated clustering of one fixed
\* client-vector set: from the second round on every client's training
\* reproduces the vector it produced in the first round.
rerunTrainClient(i) ==
    /\ pc = "train"
    /\ trained[i] = None
    /\ IF models = None
       THEN \E v \in Vectors : trained' = [trained EXCEPT ![i] = v]
       ELSE trained' = [trained EXCEPT ![i] = models[i]]
    /\ UNCHANGED <<clients, rounds, r, pc, model, broadcast, models,
                   cluster_centres, old_centres, cluster_choices,
                   cluster_models, cluster_model_count, externalArgs,
                   printed, produced, roundsError, stored, exc,
                   passes>>
    /\ UNCHANGED <<loaderVars, mainVars>>

\* line 67, the local `models` still holding the finished round's dictionary
rerunTest ==
    /\ pc = "test"
    /\ \E e \in ErrVals : roundsError' = [roundsError EXCEPT ![r + 1] = e]
    /\ stored' = stored \cup {r}
    /\ r' = r + 1
    /\ pc' = after(pc)
    /\ trained' = [i \in 1..NumClients |-> None]
    /\ cluster_models' = <<>>
    /\ cluster_model_count' = <<>>
    /\ old_centres' = None
    /\ externalArgs' = None
    /\ UNCHANGED <<clients, rounds, model, broadcast, models, cluster_centres,
                   cluster_choices, printed, produced, exc,
                   passes>>
    /\ UNCHANGED <<loaderVars, mainVars>>

NextRerun ==
    \/ shareModel
    \/ \E i \in 1..NumClients : rerunTrainClient(i)
    \/ retrieveClientModelsDict
    \/ init_cluster_centres_random
    \/ init_cluster_centres_recompute
    \/ clusteringReturn
    \/ clusteringLoopBody
    \/ clusterAggregation
    \/ externalAggregation
    \/ rerunTest
    \/ trainAndTestReturn

SpecRerun == Init /\ [][NextRerun]_vars

\* ------------------------------------------------- the six-client scenario
\* A third specification: six clients whose local training yields the
\* vectors [1,0], [0.99,0.01], [0,1], [0.01,0.99], [1,0.02], [-1,0] (further
\* parameters, if the model has any, are zero).  The clients of one run hold
\* the same number of samples.
ScenarioVectors ==
    << <<<<1, 1>>, <<0, 1>>>>,
       <<<<99, 100>>, <<1, 100>>>>,
       <<<<0, 1>>, <<1, 1>>>>,
       <<<<1, 100>>, <<99, 100>>>>,
       <<<<1, 1>>, <<1, 50>>>>,
       <<<<-1, 1>>, <<0, 1>>>> >>

ScenarioVector(i) ==
    [k \in 1..D |-> IF k <= 2 THEN ScenarioVectors[i][k] ELSE Zero]

InitScenario ==
    /\ \E n \in SampleCounts :
          clients = initClients([i \in 1..Len(ScenarioVectors) |-> n])
    /\ cluster_choices = initialChoices(Len(ScenarioVectors))
    /\ rounds \in 1..MaxRounds
    /\ roundsError = [i \in 1..rounds |-> 0]
    /\ model \in {[k \in 1..D |-> <<v, 1>>] : v \in Vals}
    /\ cluster_centres = None
    /\ old_centres = None
    /\ r = 0
    /\ pc = "share"
    /\ broadcast = None
    /\ trained = [i \in 1..NumClients |-> None]
    /\ models = None
    /\ cluster_models = <<>>
    /\ cluster_model_count = <<>>
    /\ externalArgs = None
    /\ printed = <<>>
    /\ produced = <<>>
    /\ stored = {}
    /\ passes = 0
    /\ exc = NoExc
    /\ NoLoader
    /\ InTrainAndTest

scenarioTrainClient(i) ==
    /\ pc = "train"
    /\ trained[i] = None
    /\ trained' = [trained EXCEPT ![i] = ScenarioVector(i)]
    /\ UNCHANGED <<clients, rounds, r, pc, model, broadcast, models,
                   cluster_centres, old_centres, cluster_choices,
                   cluster_models, cluster_model_count, externalArgs,
                   printed, produced, roundsError, stored, passes, exc>>
    /\ UNCHANGED <<loaderVars, mainVars>>

NextScenario ==
    \/ shareModel
    \/ \E i \in 1..NumClients : scenarioTrainClient(i)
    \/ retrieveClientModelsDict
    \/ init_cluster_centres_random
    \/ init_cluster_centres_recompute
    \/ clusteringReturn
    \/ clusteringLoopBody
    \/ clusterAggregation
    \/ externalAggregation
    \/ test
    \/ trainAndTestReturn

SpecScenario == InitScenario /\ [][NextScenario]_vars

\* ------------------------------------------- dataUtils.py, lines 47-58
\* no GroupWiseAggregation has been constructed
NoAggregator ==
    /\ clients = None
    /\ rounds = 0
    /\ r = 0
    /\ pc = "none"
    /\ model = None
    /\ broadcast = None
    /\ trained = None
    /\ models = None
    /\ cluster_centres = None
    /\ old_centres = None
    /\ cluster_choices = None
    /\ cluster_models = None
    /\ cluster_model_count = None
    /\ externalArgs = None
    /\ printed = None
    /\ produced = None
    /\ roundsError = None
    /\ stored = {}
    /\ passes = 0
    /\ exc = NoExc

RECURSIVE RatSum(_, _)
RatSum(xs, k) == IF k = 0 THEN Zero ELSE RAdd(xs[k], RatSum(xs, k - 1))

\* floor of a rational (its denominator is positive)
Floor(x) == x[1] \div x[2]

\* line 49: percUsers = percUsers / percUsers.sum()
normalised(perc) == [i \in 1..Len(perc) |-> RDiv(perc[i], RatSum(perc, Len(perc)))]

\* line 51: (percUsers * len(trainDataframe)).floor()
dataSplitCount(perc, total) ==
    [i \in 1..Len(perc) |-> Floor(RMul(normalised(perc)[i], <<total, 1>>))]

\* mutant: line 52 without dropping the first sum (the `_, *` unpacking)
dataSplitIndexKeepFirst(counts) ==
    [i \in 1..Len(counts) |-> SumN(counts, i - 1)]

\* line 52: the sums of the first i counts for i in range(n), the first
\* sum (i = 0) dropped
dataSplitIndex(counts) ==
    [i \in 1..(Len(counts) - 1) |-> SumN(counts, i)]

Min(a, b) == IF a < b THEN a ELSE b

\* line 54: np.split(frame, indices): the slices frame[0:i1], frame[i1:i2],
\* ..., frame[ik:], every bound clamped to the length as slicing does
npSplit(frame, indices) ==
    [k \in 1..(Len(indices) + 1) |->
        LET lo == IF k = 1 THEN 0 ELSE Min(indices[k - 1], Len(frame))
            hi == IF k = Len(indices) + 1 THEN Len(frame)
                  ELSE Min(indices[k], Len(frame))
        IN SubSeq(frame, lo + 1, hi)]

\* lines 49-58; reset_index(drop=True) renumbers the index of a piece and
\* keeps its rows and their order
splitTrainDataIntoClientDatasets(perc, frame) ==
    npSplit(frame, dataSplitIndex(dataSplitCount(perc, Len(frame))))

\* the inputs of one call: shares for 1..MaxClients users and a frame of
\* 1..MaxRows rows, a row being its position in the original frame
InitSplit ==
    /\ \E n \in 1..MaxClients : percUsers \in [1..n -> Shares]
    /\ \E total \in 1..MaxRows : trainDataframe = [i \in 1..total |-> i]
    /\ clientDatasets = None
    /\ NoAggregator
    /\ mainPc = "getDatasets"
    /\ config = None
    /\ exitStatus = 0
    /\ scenario = 0
    /\ aggregatorIndex = 1
    /\ runNo = 0
    /\ iterRuns = <<>>
    /\ errorsDict = <<>>
    /\ blocked = <<>>
    /\ loads = 1

splitTrainData ==
    /\ clientDatasets = None
    /\ clientDatasets' =
           splitTrainDataIntoClientDatasets(percUsers, trainDataframe)
    /\ UNCHANGED <<percUsers, trainDataframe>>
    /\ UNCHANGED <<aggregatorVars, mainVars>>

NextSplit == splitTrainData

SpecSplit == InitSplit /\ [][NextSplit]_vars

\* ------------------------------------------------ main.py, lines 139-361
\* an Optional[bool] (config.privacyPreserve) is None or <<b>>

\* lines 163-165: the class name without "Aggregator", "Plus" written "+",
\* and ":" + config.name appended when config.name is not empty
aggregatorName(cls, cfgName) ==
    LET short == SelectSeq(cls, LAMBDA t : t # "Aggregator")
        plus == [k \in 1..Len(short) |->
                    IF short[k] = "Plus" THEN "+" ELSE short[k]]
    IN IF cfgName # "" THEN plus \o <<":", cfgName>> ELSE plus

\* mutant: the else branch of lines 172-185 making the first run only
dpSettingsFirstOnly(privacyPreserve) ==
    IF privacyPreserve # None THEN <<privacyPreserve[1]>> ELSE <<FALSE>>

\* lines 167-185: the useDifferentialPrivacy arguments of the runs made for
\* one aggregator, in order
dpSettings(privacyPreserve) ==
    IF privacyPreserve # None THEN <<privacyPreserve[1]>>
    ELSE <<FALSE, TRUE>>

\* mutant: no configuration is rejected
unsupportedNever(clustering, privacyAmplification) == FALSE

\* line 349: config.clustering and config.aggregatorConfig.privacyAmplification
unsupported(clustering, privacyAmplification) ==
    clustering /\ privacyAmplification

\* d[key] = val on a dictionary
DictSet(d, key, val) ==
    [k \in DOMAIN d \cup {key} |-> IF k = key THEN val ELSE d[k]]

\* line 347: config = CustomConfig(), any configuration
InitMain ==
    /\ config \in
         [clustering : BOOLEAN,
          privacyAmplification : BOOLEAN,
          privacyPreserve : {None, <<FALSE>>, <<TRUE>>},
          aggregators : UNION {[1..n -> AggregatorClasses] :
                                  n \in 1..MaxAggregators},
          name : ConfigNames,
          scenarios : 1..MaxScenarios]
    /\ mainPc = "program"
    /\ exitStatus = 0
    /\ scenario = 0
    /\ aggregatorIndex = 1
    /\ runNo = 0
    /\ iterRuns = <<>>
    /\ errorsDict = <<>>
    /\ blocked = <<>>
    /\ loads = 0
    /\ NoLoader
    /\ NoAggregator

\* lines 349-352: exit(-1) raises SystemExit, which @logger.catch (it
\* catches Exception) lets through: the process ends with status -1
programExit ==
    /\ mainPc = "program"
    /\ unsupported(config.clustering, config.privacyAmplification)
    /\ mainPc' = "exited"
    /\ exitStatus' = -1
    /\ UNCHANGED <<config, scenario, aggregatorIndex, runNo, iterRuns,
                   errorsDict, blocked, loads>>
    /\ UNCHANGED <<aggregatorVars, loaderVars>>

\* line 349 false: on to the loop of line 354
programStart ==
    /\ mainPc = "program"
    /\ ~unsupported(config.clustering, config.privacyAmplification)
    /\ mainPc' = "scenarios"
    /\ UNCHANGED <<config, exitStatus, scenario, aggregatorIndex, runNo,
                   iterRuns, errorsDict, blocked, loads>>
    /\ UNCHANGED <<aggregatorVars, loaderVars>>

\* lines 354-356 and 143-150: the next scenario enters __experimentSetup
\* through __experimentOnMNIST, with empty dictionaries
experimentSetup ==
    /\ mainPc = "scenarios"
    /\ scenario < config.scenarios
    /\ errorsDict' = <<>>
    /\ blocked' = <<>>
    /\ aggregatorIndex' = 1
    /\ runNo' = 0
    /\ iterRuns' = <<>>
    /\ mainPc' = "setup"
    /\ UNCHANGED <<config, exitStatus, scenario, loads>>
    /\ UNCHANGED <<aggregatorVars, loaderVars>>

\* lines 167-185 and 211-263: one call of __runExperiment for the current
\* aggregator.  The call loads the datasets, creates the clients and runs
\* trainAndTest; it returns (errors, blocked) or raises, and an exception
\* leaves __experimentSetup and program and is caught by @logger.catch.
\* After the last run for the aggregator lines 177-178 store its result.
runExperiment ==
    /\ mainPc = "setup"
    /\ aggregatorIndex <= Len(config.aggregators)
    /\ loads' = loads + 1
    /\ \E returned \in BOOLEAN : \E errors \in ErrVals : \E block \in ErrVals :
         LET settings == dpSettings(config.privacyPreserve)
             run == [dp |-> settings[runNo + 1], returned |-> returned,
                     errors |-> IF returned THEN errors ELSE 0,
                     blocked |-> IF returned THEN block ELSE 0]
             name == aggregatorName(config.aggregators[aggregatorIndex],
                                    config.name)
         IN /\ iterRuns' = IF runNo = 0 THEN <<run>> ELSE Append(iterRuns, run)
            /\ IF ~returned
               THEN /\ mainPc' = "caught"
                    /\ UNCHANGED <<runNo, aggregatorIndex, errorsDict, blocked>>
               ELSE IF runNo + 1 < Len(settings)
               THEN /\ runNo' = runNo + 1
                    /\ UNCHANGED <<mainPc, aggregatorIndex, errorsDict, blocked>>
               ELSE /\ errorsDict' = DictSet(errorsDict, name, run.errors)
                    /\ blocked' = DictSet(blocked, name, run.blocked)
                    /\ aggregatorIndex' = aggregatorIndex + 1
                    /\ runNo' = 0
                    /\ mainPc' = mainPc
    /\ UNCHANGED <<config, exitStatus, scenario>>
    /\ UNCHANGED <<aggregatorVars, loaderVars>>

\* lines 180-203: the loop over the aggregators is over, the dictionaries
\* are written out and __experimentSetup returns to the loop of line 354
experimentSetupReturn ==
    /\ mainPc = "setup"
    /\ aggregatorIndex > Len(config.aggregators)
    /\ scenario' = scenario + 1
    /\ mainPc' = "scenarios"
    /\ UNCHANGED <<config, exitStatus, aggregatorIndex, runNo, iterRuns,
                   errorsDict, blocked, loads>>
    /\ UNCHANGED <<aggregatorVars, loaderVars>>

\* the loop of line 354 is over: program returns
programReturn ==
    /\ mainPc = "scenarios"
    /\ scenario = config.scenarios
    /\ mainPc' = "done"
    /\ UNCHANGED <<config, exitStatus, scenario, aggregatorIndex, runNo,
                   iterRuns, errorsDict, blocked, loads>>
    /\ UNCHANGED <<aggregatorVars, loaderVars>>

NextMain ==
    \/ programExit
    \/ programStart
    \/ experimentSetup
    \/ runExperiment
    \/ experimentSetupReturn
    \/ programReturn

SpecMain == InitMain /\ [][NextMain]_vars

TypeOK ==
    /\ pc \in {"share", "train", "clustering", "loop", "aggregate",
               "external", "test", "returned", "raised"}
    /\ r \in 0..rounds
    /\ Len(cluster_choices) = NumClients

\* ================================================================ claims
\* the positions of a round after clustering has returned
AfterClustering == {"aggregate", "external", "test"}

\* the positions of a round between the broadcast and line 65's assignment
BeforeExternal == {"train", "clustering", "loop", "aggregate", "external"}

\* the clients (1-based positions) assigned to cluster index c
Members(c) == {i \in 1..NumClients : cluster_choices[i] = c}

\* C1: after clustering has returned in a round, cluster_choices holds
\* exactly one entry per client and every entry is a cluster index in [0, K).
C1_AssignmentInRange ==
    pc \in AfterClustering =>
        /\ Len(cluster_choices) = NumClients
        /\ \A i \in 1..NumClients : cluster_choices[i] \in 0..(cluster_count - 1)

C1_Witness ==
    /\ pc = "aggregate"
    /\ NumClients >= 2
    /\ Len(printed) = 1

\* C2: the convergence loop never ends clustering by an exception: for any
\* client-vector set (all vectors identical included) clustering returns.
C2_LoopReturns == exc \notin {"IndexError", "TypeError"}

\* C3: the member counts of clusters 0..K-1 add up to the number of clients,
\* and the weights handed to the external aggregation sum to 1 over the
\* non-empty clusters.
C3_WeightsSumToOne ==
    /\ pc = "external" => SumN(cluster_model_count, cluster_count) = NumClients
    /\ pc = "test" =>
         LET fake == externalArgs.clients
             nonEmpty == SelectSeq(fake, LAMBDA f : f.p # Zero)
         IN WeightSum(nonEmpty, Len(nonEmpty)) = One

C3_Witness ==
    /\ pc = "test"
    /\ NumClients >= 2
    /\ externalArgs.clients[1].p = One

\* the internal strategy applied to the (weight, vector) pairs of exactly the
\* members of cluster c, each member once
InternalOverMembers(c) ==
    LET mem == SelectSeq([i \in 1..NumClients |-> i],
                         LAMBDA i : cluster_choices[i] = c)
    IN aggregate([k \in 1..Len(mem) |-> clients[mem[k]]],
                 [k \in 1..Len(mem) |-> models[mem[k]]])

\* C4: the representative of every non-empty cluster c handed to the external
\* aggregation is the internal strategy's result over exactly the members of c.
C4_RepresentativeOverMembers ==
    pc = "external" =>
        \A c \in 0..(cluster_count - 1) :
            Members(c) # {} =>
                cluster_models[c + 1] = InternalOverMembers(c).val

\* C5: the external strategy is invoked on the pairs of the non-empty clusters
\* only: no pair of an empty cluster (weight 0) is among its arguments.
C5_ExternalOverNonEmptyOnly ==
    pc = "test" =>
        /\ Len(externalArgs.clients) =
              Cardinality({c \in 0..(cluster_count - 1) : Members(c) # {}})
        /\ \A k \in 1..Len(externalArgs.clients) :
              externalArgs.clients[k].p # Zero

\* C6: with weighted-mean strategies, when all client vectors of a round are
\* equal to one vector v, the global model produced by that round is v.
C6_EqualVectorsGiveThatVector ==
    (pc = "test" /\ \A i \in 1..NumClients : models[i] = models[1]) =>
        model = models[1]

\* C7: clustering the same client vectors a second time ends like the first
\* time: it returns, with the assignment the first run returned.
C7_SecondRunSameAssignment ==
    (r = 1 /\ pc \in {"aggregate", "raised"}) =>
        /\ pc = "aggregate"
        /\ Len(printed) = 2
        /\ printed[2] = printed[1]

\* C8: once a strategy (or any step of the round) has failed, the failure has
\* left trainAndTest: the failing round stores no error value, the global
\* model keeps the value it had, and no step of this or a later round runs.
C8_FailureSurfaced ==
    [][exc' # NoExc =>
          /\ pc' = "raised"
          /\ r' = r
          /\ r' \notin stored'
          /\ stored' = stored
          /\ roundsError' = roundsError
          /\ model' = model
          /\ produced' = produced]_vars

C8_Witness ==
    /\ exc = Fail
    /\ pc = "raised"
    /\ r = 1
    /\ stored = {0}

\* C9: within a round clustering and everything after it run only once every
\* client has trained and its update has been collected, and a round's
\* training runs only once every earlier round has produced its global
\* model and been tested; the test of round r follows round r's aggregation.
C9_RoundOrder ==
    /\ pc \in {"clustering", "loop"} \cup AfterClustering =>
          /\ models # None
          /\ Len(models) = NumClients
          /\ \A i \in 1..NumClients : trained[i] # None /\ models[i] = trained[i]
    /\ pc \in BeforeExternal => Len(produced) = r /\ stored = 0..(r - 1)
    /\ pc \in AfterClustering => Len(printed) = r + 1
    /\ pc = "test" => Len(produced) = r + 1 /\ stored = 0..(r - 1)

C9_Witness ==
    /\ pc = "clustering"
    /\ r = 1
    /\ NumClients >= 2

\* C10: the model the clients hold in round r + 1 is the one line 65 produced
\* in round r, and from the broadcast up to line 65 self.model keeps the
\* broadcast value: clustering and the per-cluster merges do not write it.
C10_GlobalModelFrame ==
    /\ (pc \in BeforeExternal /\ r >= 1) => broadcast = produced[r]
    /\ pc \in BeforeExternal => model = broadcast
    /\ pc = "test" => model = produced[r + 1]
    /\ (pc = "raised" /\ r >= 1) => broadcast = produced[r] /\ model = broadcast

C10_Witness ==
    /\ pc = "train"
    /\ r = 1
    /\ broadcast = produced[1]
    /\ broadcast # [k \in 1..D |-> Zero]

\* the sample counts of the clients, in client order
SampleCountsOf(cs) == [i \in 1..Len(cs) |-> cs[i].n]

\* C11: every client's weight p is its sample count divided by the total
\* sample count of all clients, the weights sum to 1, and this holds in
\* every state of every round (the weights are never rewritten).
C11_StakeProportionalToSamples ==
    /\ \A i \in 1..NumClients :
          clients[i].p =
              Rat(clients[i].n, SumN(SampleCountsOf(clients), NumClients))
    /\ WeightSum(clients, NumClients) = One

C11_Witness ==
    /\ r = 1
    /\ pc = "clustering"
    /\ NumClients >= 2
    /\ clients[1].n # clients[2].n

\* C12: the per-round record of assignments holds exactly one entry for
\* every completed round: an entry exists only once its round has completed.
C12_OneEntryPerCompletedRound == Len(printed) = Cardinality(stored)

\* C13: in the six-client scenario clustering ends with clients 0, 1 and 4
\* in one cluster, clients 2 and 3 in another one, and client 5 in one of
\* these two.
C13_ScenarioClusters ==
    (pc = "aggregate" /\ r = 0) =>
        /\ cluster_choices[1] = cluster_choices[2]
        /\ cluster_choices[1] = cluster_choices[5]
        /\ cluster_choices[3] = cluster_choices[4]
        /\ cluster_choices[1] # cluster_choices[3]
        /\ cluster_choices[6] \in {cluster_choices[1], cluster_choices[3]}

\* C14: in an assignment pass every entry of cluster_choices becomes a
\* cluster index whose similarity to the entry's weights is the maximum over
\* all K centres, the lowest such index when several attain it.
C14_AssignedToMaxSimilarity ==
    [][(pc = "loop" /\ passes' = passes + 1) =>
          \A i \in 1..NumClients :
              LET w == generate_weights(models)
                  sim(j) == scalarCos(w[i], cluster_centres[j])
                  c == cluster_choices'[i]
              IN /\ c \in 0..(cluster_count - 1)
                 /\ \A j \in 1..cluster_count : sim(j) <= sim(c + 1)
                 /\ \A j \in 1..c : sim(j) < sim(c + 1)]_vars

\* C15: a step that recomputes the centres gives every cluster with at least
\* one member the internal strategy's result over exactly its current
\* members, each with its own vector and stake.
C15_CentreOverCurrentMembers ==
    [][(pc = "clustering" /\ cluster_centres # None) =>
          \A c \in 0..(cluster_count - 1) :
              Members(c) # {} =>
                  cluster_centres'[c + 1] =
                      generate_weights(<<InternalOverMembers(c).val>>)[1]]_vars

\* C16: a step that recomputes the centres leaves the centre of every cluster
\* without members as it was, and raises no error.
C16_EmptyClusterKeepsCentre ==
    [][(pc = "clustering" /\ cluster_centres # None) =>
          /\ exc' = NoExc
          /\ \A c \in 0..(cluster_count - 1) :
                Members(c) = {} =>
                    cluster_centres'[c + 1] = cluster_centres[c + 1]]_vars

\* the minimum over the K indices of the similarity between the old and the
\* new centre of that index is below 0.99 (centres being single scalars,
\* their similarity is 1, 0 or -1)
MinIndexSimBelowThreshold ==
    \E j \in 1..cluster_count :
        scalarCos(old_centres[j], cluster_centres[j]) < 1

\* C17: at the convergence test the loop is left exactly when the minimum
\* over the K indices of the similarity between old and new centre is not
\* below 0.99.
C17_RepeatsOnMinIndexSimilarity ==
    [][pc = "loop" =>
          ((pc' = "aggregate") <=> ~MinIndexSimBelowThreshold)]_vars

\* C18: whenever clustering has returned in a round, the assignment step has
\* been executed at least once by that call of clustering.
C18_AssignmentStepRun == pc \in AfterClustering => passes >= 1

\* C19: with at least K clients, the K centres drawn in the first round come
\* from K different clients: the centres can be matched one to one with
\* clients whose vectors hold them.
C19_InitialCentresDistinctClients ==
    (pc = "loop" /\ r = 0 /\ passes = 0 /\ NumClients >= cluster_count) =>
        \E f \in [1..cluster_count -> 1..NumClients] :
            /\ \A j, k \in 1..cluster_count : f[j] = f[k] => j = k
            /\ \A j \in 1..cluster_count :
                  \E k \in 1..D : models[f[j]][k] = cluster_centres[j]

\* C20: once initialised, cluster_centres holds K centres of D numbers each,
\* K * D numbers in all.
C20_CentresAreVectors ==
    cluster_centres # None => Len(cluster_centres) = cluster_count * D

\* C21: in a round after the first, the centres clustering starts with stay
\* as the previous round left them until the first assignment pass: the
\* step that opens clustering does not change them.
C21_CentresCarriedOver ==
    [][(pc = "clustering" /\ cluster_centres # None) =>
          cluster_centres' = cluster_centres]_vars

\* C22: the weight handed to the external aggregation for cluster c is the
\* number of clients assigned to c divided by the number of clients,
\* whatever the stakes p of these clients are.
C22_ClusterWeightIsMemberShare ==
    pc = "test" =>
        \A c \in 0..(cluster_count - 1) :
            externalArgs.clients[c + 1].p =
                Rat(Cardinality(Members(c)), NumClients)

C22_Witness ==
    /\ pc = "test"
    /\ NumClients >= 2
    /\ clients[1].p # clients[2].p
    /\ externalArgs.clients[1].p = One

\* the pieces of a split joined in their order
RECURSIVE Joined(_, _)
Joined(pieces, k) ==
    IF k = 0 THEN <<>> ELSE Joined(pieces, k - 1) \o pieces[k]

\* C23: the split returns one dataset per entry of percUsers; joined in
\* their order the pieces are the training rows in their original order
\* (contiguous, disjoint, covering every row); each piece but the last has
\* floor(share * total) rows, the shares normalised to sum 1, and the last
\* piece has the remaining rows.
C23_SplitPartitionsRows ==
    clientDatasets # None =>
        LET n == Len(percUsers)
            total == Len(trainDataframe)
            whole == RatSum(percUsers, n)
            rows(i) == (percUsers[i][1] * whole[2] * total)
                           \div (percUsers[i][2] * whole[1])
        IN /\ Len(clientDatasets) = n
           /\ Joined(clientDatasets, n) = trainDataframe
           /\ \A i \in 1..(n - 1) : Len(clientDatasets[i]) = rows(i)
           /\ Len(clientDatasets[n]) = total - SumN([i \in 1..(n - 1) |-> rows(i)], n - 1)

C23_Witness ==
    /\ clientDatasets # None
    /\ Len(clientDatasets) >= 2
    /\ Len(clientDatasets[1]) >= 1
    /\ Len(clientDatasets[2]) > Len(clientDatasets[1])
    /\ percUsers[1] # percUsers[2]

\* C24: with both clustering and privacy amplification enabled, the only
\* step program() takes is the exit with status -1: no dataset is loaded, no
\* client is created and no training is run.
C24_UnsupportedConfigurationExits ==
    [][(config.clustering /\ config.privacyAmplification) =>
          /\ mainPc = "program"
          /\ mainPc' = "exited"
          /\ exitStatus' = -1
          /\ loads' = 0]_vars

C24_Witness ==
    /\ mainPc = "exited"
    /\ config.clustering
    /\ config.privacyAmplification
    /\ exitStatus = -1

\* the runs __experimentSetup is to make for one aggregator
ExpectedRuns ==
    IF config.privacyPreserve = None THEN <<FALSE, TRUE>>
    ELSE config.privacyPreserve

\* C25: for each aggregator the experiment is run once with
\* config.privacyPreserve when that is set, and otherwise twice, first
\* without and then with differential privacy; once the aggregator is done
\* the errors and blocked record stored under its name are the last run's.
C25_RunsPerAggregator ==
    /\ Len(iterRuns) <= Len(ExpectedRuns)
    /\ \A k \in 1..Len(iterRuns) : iterRuns[k].dp = ExpectedRuns[k]
    /\ (mainPc \in {"setup", "scenarios", "done"} /\ runNo = 0
            /\ aggregatorIndex > 1) =>
          LET name == aggregatorName(config.aggregators[aggregatorIndex - 1],
                                     config.name)
              last == iterRuns[Len(iterRuns)]
          IN /\ Len(iterRuns) = Len(ExpectedRuns)
             /\ \A k \in 1..Len(iterRuns) : iterRuns[k].returned
             /\ errorsDict[name] = last.errors
             /\ blocked[name] = last.blocked

C25_Witness ==
    /\ mainPc = "setup"
    /\ aggregatorIndex = 2
    /\ runNo = 0
    /\ config.privacyPreserve = None
    /\ Len(iterRuns) = 2
    /\ iterRuns[1].errors # iterRuns[2].errors
    /\ errorsDict[aggregatorName(config.aggregators[1], config.name)]
           = iterRuns[2].errors

====
